---- MODULE Spec2Model ----
(***************************************************************************)
(* The request-admission controller of StacklokLabs/mkp, package           *)
(* pkg/ratelimit: the fixed-window RateLimiter, its cleanup goroutine and   *)
(* its configuration.  Durations and instants are whole half minutes.      *)
(***************************************************************************)
EXTENDS Integers, Sequences, FiniteSets, TLC

VARIABLES
    rl,             \* RateLimiter.limits and RateLimiter.defaultLimit
    windowSize,     \* the package-level var windowSize
    mu,             \* RateLimiter.mu: who holds it exclusively
    requestCounts,  \* RateLimiter.requestCounts: session -> tool -> *windowCounter
    counters,       \* the windowCounter objects, by address
    call,           \* per goroutine: the call it is serving, and its last reply
    cleaner,        \* the cleanup goroutine started by NewRateLimiter
    clock,          \* time.Now()
    hist,           \* history: per windowCounter, the calls decided and the calls admitted
                    \* since its window began, when a call last came to it, and the
                    \* times at which it admitted a call
    ncalls,         \* history: calls started
    nticks,         \* history: times the clock was advanced
    phase,          \* "boot" until the limiter is constructed, then "running"
    env,            \* the process environment read by NewDefaultConfig
    given,          \* history: the options NewRateLimiter was called with
    client,         \* the k8s.Client: its periodic refresh
    ref,            \* history: the windows of a limiter that is given the same
                    \* calls at the same times and on which no cleanup pass runs
    tb,             \* the token-bucket RateLimiter (ratelimit.go lines 210-390): its
                    \* mu, its buckets and the calls of getBucket in progress
    later           \* history: the options of the NewRateLimiter calls made after
                    \* rl was constructed, in order

vars == <<rl, windowSize, mu, requestCounts, counters, call, cleaner, clock,
          hist, ncalls, nticks, phase, env, given, client, ref, tb, later>>

----------------------------------------------------------------------------
(* Bounds of the model *)

MaxTicks == 1
MaxSeqCalls == 4
MaxConcCalls == 2
MaxEnvLen == 2
MaxStops == 2
MaxRefreshOps == 4
MaxBurstTicks == 3
MaxBurstCalls == 4
MaxAdvisoryTicks == 3
MaxAdvisoryCalls == 3
MaxBucketCalls == 3
MaxRefillCalls == 4
MaxLimiters == 2
MaxWindowCalls == 3

(* Program constants *)

cleanupInterval == 20
bucketTimeout == 60
defaultWindowSize == 2
defaultLimit == 60
defaultDefaultLimit == 60
defaultReadLimit == 120
defaultWriteLimit == 30

----------------------------------------------------------------------------
(* Small helpers for Go maps, modelled as functions with a finite domain *)

EmptyMap == [k \in {} |-> 0]

MapPut(m, k, v) == [x \in DOMAIN m \cup {k} |-> IF x = k THEN v ELSE m[x]]

MapDel(m, k) == [x \in DOMAIN m \ {k} |-> m[x]]

(* The address of a windowCounter: the key it was made for and how many were
   made for that key before it *)
Addr(sessionID, tool, n) == <<sessionID, tool, n>>
NoCounter == Addr("", "", 0)
NoOne == "none"
Goroutines == {"g1", "g2"}
SeqGoroutines == {"g1"}
CleanupGoroutine == "cleanup"

Tools == {"default-tool", "high-limit-tool"}

----------------------------------------------------------------------------
(* Configuration: part_004 (config) and NewRateLimiter with its options *)

Digits == {"0", "1", "2", "7"}
EnvChars == Digits \cup {"-", "+", "x"}

DigitVal(c) == CASE c = "0" -> 0 [] c = "1" -> 1 [] c = "2" -> 2 [] c = "7" -> 7 [] OTHER -> 0

RECURSIVE ParseDigits(_, _)
(* the decimal value of the digit string s, accumulated left to right *)
ParseDigits(s, acc) ==
    IF s = <<>> THEN acc ELSE ParseDigits(Tail(s), acc * 10 + DigitVal(Head(s)))

(* strconv.Atoi: an optional sign, then one or more decimal digits *)
Atoi(s) ==
    LET signed == s # <<>> /\ Head(s) \in {"-", "+"}
        body == IF signed THEN Tail(s) ELSE s
        okay == body # <<>> /\ \A i \in 1..Len(body) : body[i] \in Digits
    IN  [err |-> ~okay,
         val |-> IF ~okay THEN 0
                 ELSE IF signed /\ Head(s) = "-" THEN 0 - ParseDigits(body, 0)
                 ELSE ParseDigits(body, 0)]

(* getEnvInt: the variable's value when it parses to an integer > 0, else the default *)
getEnvInt(e, key, defaultValue) ==
    LET value == e[key]
    IN  IF value # <<>> /\ ~Atoi(value).err /\ Atoi(value).val > 0
        THEN Atoi(value).val
        ELSE defaultValue

NewDefaultConfig(e) ==
    [DefaultLimit |-> getEnvInt(e, "MKP_RATE_LIMIT_DEFAULT", defaultDefaultLimit),
     ReadLimit    |-> getEnvInt(e, "MKP_RATE_LIMIT_READ", defaultReadLimit),
     WriteLimit   |-> getEnvInt(e, "MKP_RATE_LIMIT_WRITE", defaultWriteLimit)]

WithToolLimit(toolName, requestsPerMinute) ==
    [kind |-> "WithToolLimit", tool |-> toolName, n |-> requestsPerMinute]

WithDefaultLimit(requestsPerMinute) ==
    [kind |-> "WithDefaultLimit", tool |-> "", n |-> requestsPerMinute]

WithTimeWindow(window) ==
    [kind |-> "WithTimeWindow", tool |-> "", n |-> window]

(* opt(rl): what one option does to the limiter under construction and to the
   package-level windowSize *)
ApplyOption(st, opt) ==
    CASE opt.kind = "WithToolLimit" ->
            [st EXCEPT !.limits = MapPut(st.limits, opt.tool, opt.n)]
      [] opt.kind = "WithDefaultLimit" ->
            [st EXCEPT !.defaultLimit = opt.n]
      [] OTHER ->
            [st EXCEPT !.windowSize = opt.n]

RECURSIVE ApplyOptions(_, _)
ApplyOptions(st, opts) ==
    IF opts = <<>> THEN st ELSE ApplyOptions(ApplyOption(st, Head(opts)), Tail(opts))

(* NewRateLimiter(opts...): the limiter's policy fields and the windowSize in
   force after the options ran; ws is windowSize before the call *)
NewRateLimiter(opts, ws) ==
    ApplyOptions([limits |-> EmptyMap, defaultLimit |-> defaultLimit, windowSize |-> ws],
                 opts)

(* a lookup that ignores the overrides *)
getLimitDefaultOnly(r, tool) == r.defaultLimit

(* getLimit: the tool's override if there is one, else the default *)
getLimit(r, tool) ==
    IF tool \in DOMAIN r.limits THEN r.limits[tool] ELSE r.defaultLimit

----------------------------------------------------------------------------
(* Session resolution *)

NoValue == [has |-> FALSE, id |-> ""]
Value(x) == [has |-> TRUE, id |-> x]

(* a context: the value stored under sessionIDKey{} and the server's ClientSession *)
Ctx(key, session) == [key |-> key, session |-> session]

(* SetSessionIDToContext *)
SetSessionIDToContext(ctx, sessionID) == [ctx EXCEPT !.key = Value(sessionID)]

Background == Ctx(NoValue, NoValue)

(* getSessionID: the custom key if set and non-empty, else the client session's
   ID, else "tool:" + toolName *)
getSessionID(ctx, toolName) ==
    IF ctx.key.has /\ ctx.key.id # "" THEN ctx.key.id
    ELSE IF ctx.session.has THEN ctx.session.id
    ELSE "tool:" \o toolName

(* a middleware that hands the context on as it got it *)
PassContext(ctx) == ctx

(* WithTimeoutContext, pkg/mcp/middleware.go lines 15-37: the context handed
   to the next handler is a fresh one made from context.Background(), which
   carries the ClientSession's ID under sessionIDKey{} when the original
   context has a ClientSession with a non-empty ID, and nothing otherwise *)
WithTimeoutContext(ctx) ==
    LET sessionID == IF ctx.session.has THEN ctx.session.id ELSE ""
    IN  IF sessionID # "" THEN SetSessionIDToContext(Background, sessionID)
        ELSE Background

Contexts ==
    {SetSessionIDToContext(Background, "session-1"),
     SetSessionIDToContext(Background, "session-2"),
     Background}

----------------------------------------------------------------------------
(* windowCounter *)

NewCounter(now) == [count |-> 0, windowStart |-> now, mu |-> NoOne]

(* a window that runs out only after more than windowSize *)
WindowExpiredLate(c, now) == now - c.windowStart > windowSize

(* line 185: the window has run out at now *)
WindowExpired(c, now) == now - c.windowStart >= windowSize

(* a reset that empties the count and leaves the window's start where it was *)
ResetCountOnly(c, now) == [c EXCEPT !.count = 0]

(* a reset that restarts the window and keeps its count *)
ResetStartOnly(c, now) == [c EXCEPT !.windowStart = now]

(* lines 186-187 *)
ResetWindow(c, now) == [c EXCEPT !.count = 0, !.windowStart = now]

(* a comparison that lets one call too many through *)
LimitExceededLate(c, limit) == c.count > limit

(* line 194 *)
LimitExceeded(c, limit) == c.count >= limit

(* the time gone by in the window taken for the time left in it *)
timeSinceWindowStart(c, now) == now - c.windowStart

(* line 195 *)
timeToNextWindow(c, now) == windowSize - (now - c.windowStart)

(* line 91: cleanup removes the counter *)
Stale(c, now) == now - c.windowStart > cleanupInterval

(* a counter whose mutex never blocks *)
CounterNeverLocked(c) == TRUE

(* counter.mu is free *)
CounterUnlocked(c) == c.mu = NoOne

(* a lookup by tool alone: the counter of any session that has one for the tool *)
LookupAnySession(sessionID, tool) ==
    LET having == {s \in DOMAIN requestCounts : tool \in DOMAIN requestCounts[s]}
    IN  IF having = {} THEN NoCounter
        ELSE requestCounts[CHOOSE s \in having : TRUE][tool]

(* the counter the store holds for a key, NoCounter if none *)
Lookup(sessionID, tool) ==
    IF sessionID \in DOMAIN requestCounts /\ tool \in DOMAIN requestCounts[sessionID]
    THEN requestCounts[sessionID][tool]
    ELSE NoCounter

(* replies *)
NoReply == [result |-> [nil |-> TRUE, isError |-> FALSE, text |-> <<>>], err |-> "nil"]

(* a rejection returned as a Go error instead of an error-flagged result *)
RateLimitError(tool, retry) ==
    [result |-> [nil |-> TRUE, isError |-> FALSE, text |-> <<>>],
     err |-> "rate limit exceeded"]

(* mcp.NewToolResultError(fmt.Sprintf(...)), nil *)
RateLimitExceeded(tool, retry) ==
    [result |-> [nil |-> FALSE, isError |-> TRUE,
                 text |-> <<"Rate limit exceeded for tool '", tool,
                            "'. Try again in ", retry, " seconds.">>],
     err |-> "nil"]

(* what the downstream handler may return *)
HandlerReturns ==
    {[result |-> [nil |-> FALSE, isError |-> FALSE, text |-> <<"success">>], err |-> "nil"],
     [result |-> [nil |-> TRUE, isError |-> FALSE, text |-> <<>>], err |-> "handler failed"]}

(* a goroutine's call: its locals with the context it came with (ctx), and as
   history the context the server's outermost middleware got (orig), the age and the count of the window when the call read the clock
   (age, was), how many calls the window had admitted when the call was
   decided (seen), the call's position among the calls of the window (nth),
   how the call was decided (outcome), how often it called next (invoked),
   what next returned (got) and how the limiter without cleanup passes
   decided the call (refOutcome) *)
IdleCall ==
    [pc |-> "idle", tool |-> "", sessionID |-> "", counter |-> NoCounter, now |-> 0,
     limit |-> 0, ret |-> NoReply,
     ctx |-> Background, orig |-> Background,
     age |-> 0, was |-> 0, seen |-> 0, nth |-> 0, outcome |-> "none", invoked |-> 0,
     got |-> NoReply, refOutcome |-> "none"]

(* history of a window that has just begun, for a counter that has admitted
   no call yet *)
NoCalls == [calls |-> 0, admitted |-> 0, lastSeen |-> 0, admits |-> <<>>]

(* cleanupTicker has not been stopped *)
NotStopped == -1

(* the cleanup goroutine between two passes; passes counts the ticks of
   cleanupTicker it has received.  With it the state of cleanupTicker: when
   it was stopped (stoppedAt) and, as history, how often Stop was called
   (nstops) and what the last call of Stop gave its caller (stopResult) *)
IdleCleaner ==
    [pc |-> "idle", now |-> 0, sessions |-> {}, sessionID |-> "", tools |-> {}, tool |-> "",
     passes |-> 0, stoppedAt |-> NotStopped, nstops |-> 0, stopResult |-> "none"]

(* the ticks cleanupTicker has sent: one every cleanupInterval until it is stopped *)
TicksSent(stoppedAt, now) ==
    (IF stoppedAt = NotStopped THEN now ELSE stoppedAt) \div cleanupInterval

----------------------------------------------------------------------------
(* The middleware handler, one action per step a goroutine takes between two
   points where it can block or be overtaken *)

Me(g) == call[g]

(* the key of goroutine g's call in the limiter without cleanup passes *)
RefKey(g) == <<call[g].sessionID, call[g].tool>>

(* lines 170-174: a call arrives; the session is resolved *)
StartCall(g, ctx, tool, maxCalls) ==
    /\ phase = "running"
    /\ Me(g).pc = "idle"
    /\ ncalls < maxCalls
    /\ call' = [call EXCEPT ![g] =
                   [IdleCall EXCEPT !.pc = "getCounter", !.tool = tool, !.ctx = ctx,
                                    !.orig = ctx,
                                    !.sessionID = getSessionID(ctx, tool)]]
    /\ ncalls' = ncalls + 1
    /\ UNCHANGED <<rl, windowSize, mu, requestCounts, counters, cleaner, clock,
                   hist, nticks, phase, env, given, client, ref, tb, later>>

(* pkg/mcp/server.go lines 58-77 and middleware.go lines 17-33: a call comes
   to the server built by CreateServer; the timeout middleware replaces its
   context and calls the limiter's handler, which resolves the session *)
ServerCall(g, ctx, tool, maxCalls) ==
    /\ phase = "running"
    /\ Me(g).pc = "idle"
    /\ ncalls < maxCalls
    /\ call' = [call EXCEPT ![g] =
                   [IdleCall EXCEPT !.pc = "getCounter", !.tool = tool,
                                    !.ctx = WithTimeoutContext(ctx),
                                    !.orig = ctx,
                                    !.sessionID =
                                        getSessionID(WithTimeoutContext(ctx), tool)]]
    /\ ncalls' = ncalls + 1
    /\ UNCHANGED <<rl, windowSize, mu, requestCounts, counters, cleaner, clock,
                   hist, nticks, phase, env, given, client, ref, tb, later>>

(* line 137: rl.mu.Lock() *)
LockStore(g) ==
    /\ Me(g).pc = "getCounter"
    /\ mu = NoOne
    /\ mu' = g
    /\ call' = [call EXCEPT ![g].pc = "inGetCounter"]
    /\ UNCHANGED <<rl, windowSize, requestCounts, counters, cleaner, clock,
                   hist, ncalls, nticks, phase, env, given, client, ref, tb, later>>

(* a store in which the session's map is made and the counter is not put *)
StoreSessionOnly(sessionID, tool, fresh) ==
    IF sessionID \in DOMAIN requestCounts THEN requestCounts
    ELSE MapPut(requestCounts, sessionID, EmptyMap)

(* lines 141-151: the store with the counter at address fresh put under the
   key, the session's map being made first when missing *)
StoreWith(sessionID, tool, fresh) ==
    LET tools == IF sessionID \in DOMAIN requestCounts
                 THEN requestCounts[sessionID] ELSE EmptyMap
    IN  MapPut(requestCounts, sessionID, MapPut(tools, tool, fresh))

(* lines 138-153: the body of getCounter and the deferred rl.mu.Unlock() *)
GetCounter(g) ==
    LET made == {a \in DOMAIN counters : a[1] = Me(g).sessionID /\ a[2] = Me(g).tool}
        fresh == Addr(Me(g).sessionID, Me(g).tool, Cardinality(made) + 1)
        found == Lookup(Me(g).sessionID, Me(g).tool)
    IN  /\ Me(g).pc = "inGetCounter"
        /\ IF found = NoCounter
           THEN /\ requestCounts' = StoreWith(Me(g).sessionID, Me(g).tool, fresh)
                /\ counters' = MapPut(counters, fresh, NewCounter(clock))
                /\ hist' = MapPut(hist, fresh, [NoCalls EXCEPT !.lastSeen = clock])
                /\ call' = [call EXCEPT ![g].pc = "lockCounter", ![g].counter = fresh]
           ELSE /\ call' = [call EXCEPT ![g].pc = "lockCounter", ![g].counter = found]
                /\ UNCHANGED <<requestCounts, counters, hist>>
        /\ mu' = NoOne
        /\ ref' = IF RefKey(g) \in DOMAIN ref THEN ref
                  ELSE MapPut(ref, RefKey(g), NewCounter(clock))
        /\ UNCHANGED <<rl, windowSize, cleaner, clock, ncalls, nticks, phase, env, given, client, tb, later>>

(* lines 178-188: counter.mu.Lock(), now := time.Now(), the window reset *)
LockCounter(g) ==
    LET c == Me(g).counter
        expired == WindowExpired(counters[c], clock)
        w == IF expired THEN ResetWindow(counters[c], clock) ELSE counters[c]
    IN  /\ Me(g).pc = "lockCounter"
        /\ CounterUnlocked(counters[c])
        /\ counters' = [counters EXCEPT ![c] = [w EXCEPT !.mu = g]]
        /\ hist' = [hist EXCEPT ![c] =
                       [IF expired THEN [NoCalls EXCEPT !.admits = hist[c].admits] ELSE @
                           EXCEPT !.lastSeen = clock]]
        /\ call' = [call EXCEPT ![g].pc = "getLimit", ![g].now = clock,
                                ![g].age = clock - counters[c].windowStart,
                                ![g].was = counters[c].count]
        /\ ref' = [ref EXCEPT ![RefKey(g)] =
                      IF WindowExpired(@, clock) THEN ResetWindow(@, clock) ELSE @]
        /\ UNCHANGED <<rl, windowSize, mu, requestCounts, cleaner, clock,
                       ncalls, nticks, phase, env, given, client, tb, later>>

(* lines 191-199: rl.getLimit(tool) under rl.mu.RLock(), the comparison, and on
   a full window the rejection and the deferred counter.mu.Unlock().  The
   limiter without cleanup passes makes its comparison, and counts the call if
   it admits it, in the same step. *)
GetLimit(g) ==
    LET c == Me(g).counter
        limit == getLimit(rl, Me(g).tool)
        refDecision == IF LimitExceeded(ref[RefKey(g)], limit) THEN "deny" ELSE "admit"
    IN  /\ Me(g).pc = "getLimit"
        /\ mu = NoOne
        /\ IF LimitExceeded(counters[c], limit)
           THEN /\ call' = [call EXCEPT
                       ![g].pc = "return", ![g].limit = limit,
                       ![g].refOutcome = refDecision,
                       ![g].ret = RateLimitExceeded(Me(g).tool,
                                      timeToNextWindow(counters[c], Me(g).now)),
                       ![g].outcome = "deny", ![g].seen = hist[c].admitted,
                       ![g].nth = hist[c].calls + 1]
                /\ counters' = [counters EXCEPT ![c].mu = NoOne]
                /\ hist' = [hist EXCEPT ![c].calls = @ + 1]
           ELSE /\ call' = [call EXCEPT ![g].pc = "increment", ![g].limit = limit,
                                        ![g].refOutcome = refDecision]
                /\ UNCHANGED <<counters, hist>>
        /\ ref' = IF refDecision = "admit"
                  THEN [ref EXCEPT ![RefKey(g)].count = @ + 1]
                  ELSE ref
        /\ UNCHANGED <<rl, windowSize, mu, requestCounts, cleaner, clock,
                       ncalls, nticks, phase, env, given, client, tb, later>>

(* lines 202-205: counter.count++ and the call of next *)
Increment(g) ==
    LET c == Me(g).counter
    IN  /\ Me(g).pc = "increment"
        /\ counters' = [counters EXCEPT ![c].count = @ + 1]
        /\ hist' = [hist EXCEPT ![c].calls = @ + 1, ![c].admitted = @ + 1,
                                ![c].admits = Append(@, Me(g).now)]
        /\ call' = [call EXCEPT ![g].pc = "next", ![g].invoked = @ + 1,
                                ![g].outcome = "admit", ![g].seen = hist[c].admitted,
                                ![g].nth = hist[c].calls + 1]
        /\ UNCHANGED <<rl, windowSize, mu, requestCounts, cleaner, clock,
                       ncalls, nticks, phase, env, given, client, ref, tb, later>>

(* line 205: next returns r; the handler returns it and counter.mu is unlocked *)
NextReturns(g, r) ==
    LET c == Me(g).counter
    IN  /\ Me(g).pc = "next"
        /\ call' = [call EXCEPT ![g].pc = "return", ![g].ret = r, ![g].got = r]
        /\ counters' = [counters EXCEPT ![c].mu = NoOne]
        /\ UNCHANGED <<rl, windowSize, mu, requestCounts, cleaner, clock,
                       hist, ncalls, nticks, phase, env, given, client, ref, tb, later>>

(* the server takes the handler's reply; the goroutine is free for another call *)
Return(g) ==
    /\ Me(g).pc = "return"
    /\ call' = [call EXCEPT ![g] = IdleCall]
    /\ UNCHANGED <<rl, windowSize, mu, requestCounts, counters, cleaner, clock,
                   hist, ncalls, nticks, phase, env, given, client, ref, tb, later>>

----------------------------------------------------------------------------
(* The cleanup goroutine: lines 73-77 and 82-101 *)

(* lines 72-75 and 83-87: a tick of cleanupTicker, which ticks once every
   cleanupInterval, is received; rl.mu.Lock(), now := time.Now() *)
CleanupStart ==
    /\ phase = "running"
    /\ cleaner.pc = "idle"
    /\ cleaner.passes < TicksSent(cleaner.stoppedAt, clock)
    /\ mu = NoOne
    /\ mu' = CleanupGoroutine
    /\ cleaner' = [cleaner EXCEPT !.pc = "sessions", !.now = clock,
                                  !.sessions = DOMAIN requestCounts,
                                  !.passes = @ + 1]
    /\ UNCHANGED <<rl, windowSize, requestCounts, counters, call, clock,
                   hist, ncalls, nticks, phase, env, given, client, ref, tb, later>>

(* line 87: the next session of the range, or the end of the pass and the
   deferred rl.mu.Unlock() *)
CleanupNextSession ==
    /\ cleaner.pc = "sessions"
    /\ IF cleaner.sessions = {}
       THEN /\ cleaner' = [cleaner EXCEPT !.pc = "idle", !.now = 0]
            /\ mu' = NoOne
       ELSE /\ \E s \in cleaner.sessions :
                  cleaner' = [cleaner EXCEPT !.pc = "tools", !.sessionID = s,
                                             !.sessions = @ \ {s},
                                             !.tools = DOMAIN requestCounts[s]]
            /\ UNCHANGED mu
    /\ UNCHANGED <<rl, windowSize, requestCounts, counters, call, clock,
                   hist, ncalls, nticks, phase, env, given, client, ref, tb, later>>

(* lines 88 and 97-99: the next counter of the session, or the end of the
   session's range and the removal of its map when empty *)
CleanupNextTool ==
    /\ cleaner.pc = "tools"
    /\ IF cleaner.tools = {}
       THEN /\ cleaner' = [cleaner EXCEPT !.pc = "sessions", !.sessionID = ""]
            /\ requestCounts' =
                  IF DOMAIN requestCounts[cleaner.sessionID] = {}
                  THEN MapDel(requestCounts, cleaner.sessionID)
                  ELSE requestCounts
       ELSE /\ \E t \in cleaner.tools :
                  cleaner' = [cleaner EXCEPT !.pc = "lockCounter", !.tool = t,
                                             !.tools = @ \ {t}]
            /\ UNCHANGED requestCounts
    /\ UNCHANGED <<rl, windowSize, mu, counters, call, clock,
                   hist, ncalls, nticks, phase, env, given, client, ref, tb, later>>

(* lines 89-94: counter.mu.Lock(), the removal of a stale counter, counter.mu.Unlock() *)
CleanupVisit ==
    LET s == cleaner.sessionID
        t == cleaner.tool
        c == requestCounts[s][t]
    IN  /\ cleaner.pc = "lockCounter"
        /\ CounterUnlocked(counters[c])
        /\ requestCounts' =
              IF Stale(counters[c], cleaner.now)
              THEN [requestCounts EXCEPT ![s] = MapDel(@, t)]
              ELSE requestCounts
        /\ cleaner' = [cleaner EXCEPT !.pc = "tools", !.tool = ""]
        /\ UNCHANGED <<rl, windowSize, mu, counters, call, clock,
                       hist, ncalls, nticks, phase, env, given, client, ref, tb, later>>

(* lines 104-108: Stop stops cleanupTicker, which sends no tick from then on;
   stopping a stopped ticker changes nothing.  Stop has no result. *)
Stop ==
    /\ phase = "running"
    /\ cleaner.nstops < MaxStops
    /\ cleaner' = [cleaner EXCEPT
                      !.stoppedAt = IF @ = NotStopped THEN clock ELSE @,
                      !.nstops = @ + 1,
                      !.stopResult = "nothing"]
    /\ UNCHANGED <<rl, windowSize, mu, requestCounts, counters, call, clock,
                   hist, ncalls, nticks, phase, env, given, client, ref, tb, later>>

(* how far the clock advances between two events: a default window, or just
   more than cleanupInterval *)
Delays == {defaultWindowSize, cleanupInterval + 1}

(* time passes *)
Tick ==
    /\ nticks < MaxTicks
    /\ \E d \in Delays : clock' = clock + d
    /\ nticks' = nticks + 1
    /\ UNCHANGED <<rl, windowSize, mu, requestCounts, counters, call, cleaner,
                   hist, ncalls, phase, env, given, client, ref, tb, later>>

----------------------------------------------------------------------------
(* The limiters the model runs: the option lists of the package's tests, one
   with a window longer than cleanupInterval and one with a zero quota *)

OptionLists ==
    {<<WithDefaultLimit(2)>>,
     <<WithDefaultLimit(1), WithToolLimit("high-limit-tool", 3)>>,
     <<WithDefaultLimit(1), WithTimeWindow(cleanupInterval + 2)>>,
     <<WithDefaultLimit(0)>>}

ConcOptionLists ==
    {<<WithDefaultLimit(1), WithToolLimit("high-limit-tool", 3)>>}

ConcContexts == {SetSessionIDToContext(Background, "session-1")}

SeqContexts ==
    {SetSessionIDToContext(Background, "session-1"),
     SetSessionIDToContext(Background, "session-2")}

NoEnv ==
    [k \in {"MKP_RATE_LIMIT_DEFAULT", "MKP_RATE_LIMIT_READ", "MKP_RATE_LIMIT_WRITE"} |-> <<>>]

Constructed(opts) ==
    LET made == NewRateLimiter(opts, defaultWindowSize)
    IN  /\ rl = [limits |-> made.limits, defaultLimit |-> made.defaultLimit]
        /\ windowSize = made.windowSize
        /\ given = opts

(* a refresh goroutine just started: waiting in its select, its context live;
   refreshed records that a RefreshClient it called has returned *)
NewTask == [pc |-> "select", cancelled |-> FALSE, refreshed |-> FALSE]

(* a Client as the program makes it: not refreshing.  tasks are the refresh
   goroutines started so far, the last of them the one refreshCancel cancels.
   As history: the calls of Start and Stop made (nops), the last of them (op),
   the error it returned (err) and the last that returned nil (lastOk). *)
NewClient ==
    [refreshing |-> FALSE, refreshInterval |-> 0, tasks |-> <<>>,
     nops |-> 0, op |-> "none", err |-> "nil", lastOk |-> "none"]

(* no bucket *)
NoBucket == [tokens |-> 0, lastSeen |-> -1]

(* a goroutine that is not in getBucket; result is what its last getBucket
   returned *)
IdleBucketCall == [pc |-> "idle", sessionID |-> "", tool |-> "", result |-> NoBucket]

(* no bucket is under study: a bucket taken by itself, with the handler's
   steps on a bucket (lines 363-387) applied to it; as history the tokens it
   held and the time since its previous access when the last call came (was,
   idle), how that call was decided (outcome) and the number of calls (n) *)
NoProbe ==
    [bucket |-> NoBucket, tool |-> "", was |-> 0, idle |-> 0, outcome |-> "none", n |-> 0]

(* the token-bucket limiter as NewRateLimiter makes it (lines 262-282): no
   bucket, mu free; passes counts the ticks its cleanup goroutine has received *)
NewBucketLimiter ==
    [mu |-> NoOne, buckets |-> EmptyMap,
     call |-> [g \in Goroutines |-> IdleBucketCall], passes |-> 0,
     probe |-> NoProbe]

Running(optionLists) ==
    /\ \E opts \in optionLists : Constructed(opts)
    /\ mu = NoOne
    /\ requestCounts = EmptyMap
    /\ counters = EmptyMap
    /\ call = [g \in Goroutines |-> IdleCall]
    /\ cleaner = IdleCleaner
    /\ clock = 0
    /\ hist = EmptyMap
    /\ ncalls = 0
    /\ nticks = 0
    /\ phase = "running"
    /\ env = NoEnv
    /\ client = NewClient
    /\ ref = EmptyMap
    /\ tb = NewBucketLimiter
    /\ later = <<>>

Handler(g, ctxs, maxCalls) ==
    \/ \E ctx \in ctxs, tool \in Tools : StartCall(g, ctx, tool, maxCalls)
    \/ LockStore(g)
    \/ GetCounter(g)
    \/ LockCounter(g)
    \/ GetLimit(g)
    \/ Increment(g)
    \/ \E r \in HandlerReturns : NextReturns(g, r)
    \/ Return(g)

Cleanup ==
    \/ CleanupStart
    \/ CleanupNextSession
    \/ CleanupNextTool
    \/ CleanupVisit

(* Concurrent calls and the cleanup goroutine, freely interleaved *)
Init == Running(ConcOptionLists)

Next ==
    \/ \E g \in Goroutines : Handler(g, ConcContexts, MaxConcCalls)
    \/ Cleanup
    \/ Tick

Spec == Init /\ [][Next]_vars

(* One call at a time, and cleanup passes only between calls *)
SeqInit == Running(OptionLists)

SeqNext ==
    \/ \E g \in SeqGoroutines :
          /\ cleaner.pc = "idle"
          /\ Handler(g, SeqContexts, MaxSeqCalls)
    \/ /\ \A g \in Goroutines : call[g].pc = "idle"
       /\ Cleanup
    \/ Tick

SpecSeq == SeqInit /\ [][SeqNext]_vars

(* Concurrent calls while no cleanup pass runs *)
CallsNext ==
    \/ \E g \in Goroutines : Handler(g, ConcContexts, MaxConcCalls)
    \/ Tick

SpecCalls == Init /\ [][CallsNext]_vars

(* Calls one after another, cleanup passes between calls, and calls of Stop;
   the goroutines are scheduled fairly *)
StopNext ==
    \/ \E g \in SeqGoroutines :
          /\ cleaner.pc = "idle"
          /\ Handler(g, ConcContexts, MaxConcCalls)
    \/ /\ \A g \in Goroutines : call[g].pc = "idle"
       /\ Cleanup
    \/ Tick
    \/ Stop

SpecStop == Init /\ [][StopNext]_vars /\ WF_vars(StopNext)

(* Concurrent calls that come with every kind of context: the custom key
   absent, empty or set, and the ClientSession absent or present with an ID
   of its own *)
AllContexts ==
    {Ctx(key, session) :
        key \in {NoValue, Value(""), Value("session-1"), Value("tool:default-tool")},
        session \in {NoValue, Value(""), Value("mock-session")}}

SessionsNext == \E g \in Goroutines : Handler(g, AllContexts, MaxConcCalls)

SpecSessions == Init /\ [][SessionsNext]_vars

(* Concurrent calls and the cleanup goroutine for a limiter whose window, set
   by WithTimeWindow, is longer than cleanupInterval *)
WideOptionLists ==
    {<<WithDefaultLimit(1), WithTimeWindow(cleanupInterval + 2)>>}

WideInit == Running(WideOptionLists)

SpecWide == WideInit /\ [][Next]_vars

(* Calls one after another for a limiter whose window is two units long, the
   clock advancing by half a window at a time, also between a call's
   getCounter and its reading of the clock; no cleanup pass runs *)
BurstOptionLists ==
    {<<WithDefaultLimit(1), WithToolLimit("high-limit-tool", 2), WithTimeWindow(2)>>}

BurstInit == Running(BurstOptionLists)

(* time passes: half a window *)
BurstTick ==
    /\ nticks < MaxBurstTicks
    /\ clock' = clock + 1
    /\ nticks' = nticks + 1
    /\ UNCHANGED <<rl, windowSize, mu, requestCounts, counters, call, cleaner,
                   hist, ncalls, phase, env, given, client, ref, tb, later>>

BurstNext ==
    \/ \E g \in SeqGoroutines : Handler(g, ConcContexts, MaxBurstCalls)
    \/ BurstTick

SpecBurst == BurstInit /\ [][BurstNext]_vars

(* Calls one after another for a limiter with the default window, cleanup
   passes only between calls, the clock advancing by half a window or by just
   more than cleanupInterval, also while a call is being served *)
AdvisoryDelays == {1, cleanupInterval + 1}

AdvisoryTick ==
    /\ nticks < MaxAdvisoryTicks
    /\ \E d \in AdvisoryDelays : clock' = clock + d
    /\ nticks' = nticks + 1
    /\ UNCHANGED <<rl, windowSize, mu, requestCounts, counters, call, cleaner,
                   hist, ncalls, phase, env, given, client, ref, tb, later>>

AdvisoryNext ==
    \/ \E g \in SeqGoroutines :
          /\ cleaner.pc = "idle"
          /\ Handler(g, ConcContexts, MaxAdvisoryCalls)
    \/ /\ \A g \in Goroutines : call[g].pc = "idle"
       /\ Cleanup
    \/ AdvisoryTick

SpecAdvisory == Init /\ [][AdvisoryNext]_vars

(* Further limiters are constructed while rl serves calls.  NewRateLimiter
   (lines 60-80) runs the options, and WithTimeWindow's option assigns the
   package-level windowSize (line 55), which the handler of every limiter
   reads (line 185). *)
AnotherLimiter(opts) ==
    /\ phase = "running"
    /\ Len(later) < MaxLimiters
    /\ windowSize' = NewRateLimiter(opts, windowSize).windowSize
    /\ later' = Append(later, opts)
    /\ UNCHANGED <<rl, mu, requestCounts, counters, call, cleaner, clock,
                   hist, ncalls, nticks, phase, env, given, client, ref, tb>>

(* the first limiter as TestWindowReset (part_005 line 156) and the other
   tests construct it; the later ones with and without WithTimeWindow *)
WindowOptionLists ==
    {<<WithDefaultLimit(1), WithTimeWindow(1)>>, <<WithDefaultLimit(1)>>}

LaterOptionLists ==
    {<<WithDefaultLimit(1), WithTimeWindow(1)>>, <<WithDefaultLimit(2)>>, <<>>}

WindowsInit == Running(WindowOptionLists)

WindowsNext ==
    \/ \E g \in SeqGoroutines :
          /\ cleaner.pc = "idle"
          /\ Handler(g, ConcContexts, MaxWindowCalls)
    \/ \E opts \in LaterOptionLists : AnotherLimiter(opts)
    \/ BurstTick

SpecWindows == WindowsInit /\ [][WindowsNext]_vars

----------------------------------------------------------------------------
(* Construction: the limiter is built from the environment
   (GetDefaultRateLimiter) or from options given by the caller *)

RECURSIVE Strings(_)
(* the strings over EnvChars of length n or less *)
Strings(n) ==
    IF n = 0 THEN {<<>>}
    ELSE Strings(n - 1) \cup
         {Append(s, c) : s \in {x \in Strings(n - 1) : Len(x) = n - 1}, c \in EnvChars}

Environments ==
    {[NoEnv EXCEPT !["MKP_RATE_LIMIT_DEFAULT"] = d, !["MKP_RATE_LIMIT_READ"] = r,
                   !["MKP_RATE_LIMIT_WRITE"] = w] :
        d \in Strings(MaxEnvLen), r \in {<<>>, <<"7">>}, w \in {<<>>, <<"-", "2">>}}

CallerOptionLists ==
    OptionLists \cup
    {<<>>,
     <<WithDefaultLimit(100), WithToolLimit("test-tool", 50)>>,
     <<WithDefaultLimit(-1)>>,
     <<WithDefaultLimit(5), WithToolLimit("test-tool", 0)>>}

Unbuilt == [limits |-> EmptyMap, defaultLimit |-> 0]

BootInit ==
    /\ phase = "boot"
    /\ env \in Environments
    /\ given = <<>>
    /\ rl = Unbuilt
    /\ windowSize = defaultWindowSize
    /\ mu = NoOne
    /\ requestCounts = EmptyMap
    /\ counters = EmptyMap
    /\ call = [g \in Goroutines |-> IdleCall]
    /\ cleaner = IdleCleaner
    /\ clock = 0
    /\ hist = EmptyMap
    /\ ncalls = 0
    /\ nticks = 0
    /\ client = NewClient
    /\ ref = EmptyMap
    /\ tb = NewBucketLimiter
    /\ later = <<>>

(* the options GetRateLimiterWithConfig passes on *)
ConfigOptions(config) ==
    <<WithDefaultLimit(config.DefaultLimit),
      WithToolLimit("list_resources", config.ReadLimit),
      WithToolLimit("get_resource", config.ReadLimit),
      WithToolLimit("apply_resource", config.WriteLimit),
      WithToolLimit("delete_resource", config.WriteLimit)>>

(* NewRateLimiter(opts...) returns a limiter *)
Build(opts) ==
    LET made == NewRateLimiter(opts, windowSize)
    IN  /\ phase = "boot"
        /\ rl' = [limits |-> made.limits, defaultLimit |-> made.defaultLimit]
        /\ windowSize' = made.windowSize
        /\ given' = opts
        /\ phase' = "running"
        /\ UNCHANGED <<mu, requestCounts, counters, call, cleaner, clock,
                       hist, ncalls, nticks, env, client, ref, tb, later>>

(* GetDefaultRateLimiter() = GetRateLimiterWithConfig(nil) *)
GetDefaultRateLimiter == Build(ConfigOptions(NewDefaultConfig(env)))

(* a caller constructs the limiter with options of its own *)
NewRateLimiterCall == \E opts \in CallerOptionLists : Build(opts)

BootNext ==
    \/ GetDefaultRateLimiter
    \/ NewRateLimiterCall

SpecConfig == BootInit /\ [][BootNext]_vars

(* The server of CreateServer with rate limiting enabled: the limiter of
   GetDefaultRateLimiter behind the timeout middleware, and concurrent calls
   that come with every kind of context *)
ServerOptionLists == {ConfigOptions(NewDefaultConfig(NoEnv))}

ServerInit == Running(ServerOptionLists)

ServerNext ==
    \E g \in Goroutines :
        \/ \E ctx \in AllContexts, tool \in Tools : ServerCall(g, ctx, tool, MaxConcCalls)
        \/ LockStore(g)
        \/ GetCounter(g)
        \/ LockCounter(g)
        \/ GetLimit(g)
        \/ Increment(g)
        \/ \E r \in HandlerReturns : NextReturns(g, r)
        \/ Return(g)

SpecServer == ServerInit /\ [][ServerNext]_vars

----------------------------------------------------------------------------
(* The token-bucket variant of the limiter: ratelimit.go lines 210-390.  Its
   policy fields (limits, defaultLimit) and its getLimit are those of the
   fixed-window limiter; rl.mu is a sync.RWMutex, which is not reentrant: it
   is given for reading or for writing only while no goroutine holds it for
   writing, the goroutine that asks included. *)

BucketFrame ==
    UNCHANGED <<rl, windowSize, mu, requestCounts, counters, call, cleaner,
                hist, nticks, phase, env, given, client, ref, later>>

(* the session IDs getBucket is called with *)
BucketSessions == {"session:test-session-id", "unknown"}

(* lines 335-338: a new bucket, full *)
NewBucket(limit, now) == [tokens |-> limit, lastSeen |-> now]

(* the bucket the limiter holds for a key, NoBucket if none *)
BucketOf(sessionID, tool) ==
    IF sessionID \in DOMAIN tb.buckets /\ tool \in DOMAIN tb.buckets[sessionID]
    THEN tb.buckets[sessionID][tool]
    ELSE NoBucket

(* line 324: getBucket(sessionID, tool) is called *)
getBucketCall(g, sessionID, tool) ==
    /\ phase = "running"
    /\ tb.call[g].pc = "idle"
    /\ ncalls < MaxBucketCalls
    /\ tb' = [tb EXCEPT !.call[g] =
                 [IdleBucketCall EXCEPT !.pc = "Lock", !.sessionID = sessionID,
                                        !.tool = tool]]
    /\ ncalls' = ncalls + 1
    /\ UNCHANGED clock
    /\ BucketFrame

(* rl.mu is given to a goroutine that waits for it.  Line 325, rl.mu.Lock():
   the goroutine goes on to the lookup.  Line 346, rl.mu.RLock() in the
   getLimit called at line 336: getLimit returns the limit, the new bucket is
   put into the session's map (lines 335-338) and returned (line 341), and
   the deferred rl.mu.Unlock() runs. *)
BucketAcquire(g) ==
    LET c == tb.call[g]
        made == NewBucket(getLimit(rl, c.tool), clock)
    IN  /\ c.pc \in {"Lock", "RLock"}
        /\ tb.mu = NoOne
        /\ IF c.pc = "Lock"
           THEN tb' = [tb EXCEPT !.mu = g, !.call[g].pc = "lookup"]
           ELSE tb' = [tb EXCEPT !.mu = NoOne,
                                 !.buckets[c.sessionID] = MapPut(@, c.tool, made),
                                 !.call[g].pc = "idle",
                                 !.call[g].result = made]
        /\ UNCHANGED <<clock, ncalls>>
        /\ BucketFrame

(* lines 328-341 under rl.mu: the session's map is made when missing; a bucket
   that exists is returned and the deferred rl.mu.Unlock() runs; for a missing
   bucket getLimit is called (line 336), whose first statement is
   rl.mu.RLock() (line 346) *)
BucketLookup(g) ==
    LET c == tb.call[g]
        withSession == IF c.sessionID \in DOMAIN tb.buckets THEN tb.buckets
                       ELSE MapPut(tb.buckets, c.sessionID, EmptyMap)
    IN  /\ c.pc = "lookup"
        /\ IF c.tool \in DOMAIN withSession[c.sessionID]
           THEN tb' = [tb EXCEPT !.mu = NoOne,
                                 !.call[g].pc = "idle",
                                 !.call[g].result = withSession[c.sessionID][c.tool]]
           ELSE tb' = [tb EXCEPT !.buckets = withSession, !.call[g].pc = "RLock"]
        /\ UNCHANGED <<clock, ncalls>>
        /\ BucketFrame

(* the buckets of a session that a cleanup pass at now keeps: line 293 *)
KeptBuckets(tools, now) ==
    [t \in {x \in DOMAIN tools : ~(now - tools[x].lastSeen > bucketTimeout)} |-> tools[t]]

(* lines 275-279 and 284-303: a tick of cleanupTicker is received and a
   cleanup pass runs under rl.mu from its first statement to its last *)
BucketCleanup ==
    /\ phase = "running"
    /\ tb.passes < clock \div cleanupInterval
    /\ tb.mu = NoOne
    /\ tb' = [tb EXCEPT
                 !.passes = @ + 1,
                 !.buckets =
                     [s \in {x \in DOMAIN tb.buckets :
                                DOMAIN KeptBuckets(tb.buckets[x], clock) # {}} |->
                         KeptBuckets(tb.buckets[s], clock)]]
    /\ UNCHANGED <<clock, ncalls>>
    /\ BucketFrame

(* the limiter of TestRateLimiterAllowRequest *)
BucketOptionLists == {<<WithDefaultLimit(5)>>}

BucketInit == Running(BucketOptionLists)

BucketNext ==
    \/ \E g \in Goroutines :
          \/ \E sessionID \in BucketSessions, tool \in Tools :
                getBucketCall(g, sessionID, tool)
          \/ BucketAcquire(g)
          \/ BucketLookup(g)
    \/ BucketCleanup
    \/ Tick

SpecBucket == BucketInit /\ [][BucketNext]_vars

(* The handler of the token-bucket limiter on one bucket: lines 363-387 as a
   function of the bucket, the tool's limit and the clock *)

Min(a, b) == IF a <= b THEN a ELSE b

(* lines 371-373: int(elapsed.Seconds() * float64(limit) / 60.0), elapsed in
   half minutes *)
tokensToAdd(elapsed, limit) == (elapsed * limit) \div 2

(* lines 366-384: lastSeen is set to now (line 367), then elapsed is taken
   from lastSeen (line 372), the tokens earned are added up to the limit
   (line 376), and a token is taken if there is one (lines 379-384) *)
BucketCheck(b, limit, now) ==
    LET seen == [b EXCEPT !.lastSeen = now]
        elapsed == now - seen.lastSeen
        filled == [seen EXCEPT !.tokens = Min(@ + tokensToAdd(elapsed, limit), limit)]
    IN  IF filled.tokens <= 0
        THEN [bucket |-> filled, outcome |-> "deny"]
        ELSE [bucket |-> [filled EXCEPT !.tokens = @ - 1], outcome |-> "admit"]

(* lines 335-338: a bucket as getBucket fills it for a tool is taken for study *)
BucketMade(tool) ==
    /\ phase = "running"
    /\ tb.probe.bucket = NoBucket
    /\ tb' = [tb EXCEPT !.probe.bucket = NewBucket(getLimit(rl, tool), clock),
                        !.probe.tool = tool]
    /\ UNCHANGED <<clock, ncalls>>
    /\ BucketFrame

(* lines 363-387: a call comes to the bucket *)
BucketServe ==
    LET p == tb.probe
        served == BucketCheck(p.bucket, getLimit(rl, p.tool), clock)
    IN  /\ p.bucket # NoBucket
        /\ p.n < MaxRefillCalls
        /\ tb' = [tb EXCEPT !.probe =
                     [p EXCEPT !.bucket = served.bucket, !.outcome = served.outcome,
                               !.was = p.bucket.tokens,
                               !.idle = clock - p.bucket.lastSeen,
                               !.n = @ + 1]]
        /\ UNCHANGED <<clock, ncalls>>
        /\ BucketFrame

RefillOptionLists ==
    {<<WithDefaultLimit(1)>>, <<WithDefaultLimit(2), WithToolLimit("high-limit-tool", 5)>>}

RefillInit == Running(RefillOptionLists)

RefillNext ==
    \/ \E tool \in Tools : BucketMade(tool)
    \/ BucketServe
    \/ BurstTick

SpecRefill == RefillInit /\ [][RefillNext]_vars

----------------------------------------------------------------------------
(* The Kubernetes client's periodic refresh: pkg/k8s, StartPeriodicRefresh,
   StopPeriodicRefresh, IsRefreshing, GetRefreshInterval.  Each of the four
   holds refreshMu from its first statement to its return. *)

(* the intervals main passes: the flag's value when it is > 0 *)
RefreshIntervals == {1, 5}

(* a GetRefreshInterval that returns the field as it is *)
GetRefreshIntervalField(c) == c.refreshInterval

(* lines 690-695 *)
IsRefreshing(c) == c.refreshing

(* lines 699-708 *)
GetRefreshInterval(c) == IF ~c.refreshing THEN 0 ELSE c.refreshInterval

(* the refresh goroutines that have not returned *)
RunningTasks(c) == {t \in DOMAIN c.tasks : c.tasks[t].pc # "exited"}

(* lines 634-670 *)
StartPeriodicRefresh(interval) ==
    /\ client.nops < MaxRefreshOps
    /\ IF client.refreshing
       THEN client' = [client EXCEPT !.nops = @ + 1, !.op = "start",
                          !.err = "periodic refresh is already running"]
       ELSE client' = [client EXCEPT !.refreshing = TRUE,
                          !.refreshInterval = interval,
                          !.tasks = Append(@, NewTask),
                          !.nops = @ + 1, !.op = "start", !.err = "nil",
                          !.lastOk = "start"]
    /\ UNCHANGED <<rl, windowSize, mu, requestCounts, counters, call, cleaner, clock,
                   hist, ncalls, nticks, phase, env, given, ref, tb, later>>

(* lines 674-687: refreshCancel cancels the context of the goroutine started last *)
StopPeriodicRefresh ==
    /\ client.nops < MaxRefreshOps
    /\ IF ~client.refreshing
       THEN client' = [client EXCEPT !.nops = @ + 1, !.op = "stop",
                          !.err = "periodic refresh is not running"]
       ELSE client' = [client EXCEPT !.refreshing = FALSE,
                          !.tasks[Len(client.tasks)].cancelled = TRUE,
                          !.nops = @ + 1, !.op = "stop", !.err = "nil",
                          !.lastOk = "stop"]
    /\ UNCHANGED <<rl, windowSize, mu, requestCounts, counters, call, cleaner, clock,
                   hist, ncalls, nticks, phase, env, given, ref, tb, later>>

(* lines 655-661: the goroutine's ticker fires and it calls RefreshClient *)
RefreshFires(t) ==
    /\ client.tasks[t].pc = "select"
    /\ client' = [client EXCEPT !.tasks[t].pc = "refresh"]
    /\ UNCHANGED <<rl, windowSize, mu, requestCounts, counters, call, cleaner, clock,
                   hist, ncalls, nticks, phase, env, given, ref, tb, later>>

(* lines 657-661: RefreshClient returns, with an error or without; the loop goes on *)
RefreshReturns(t) ==
    /\ client.tasks[t].pc = "refresh"
    /\ client' = [client EXCEPT !.tasks[t].pc = "select", !.tasks[t].refreshed = TRUE]
    /\ UNCHANGED <<rl, windowSize, mu, requestCounts, counters, call, cleaner, clock,
                   hist, ncalls, nticks, phase, env, given, ref, tb, later>>

(* lines 662-664: the goroutine sees its context cancelled and returns *)
RefreshExits(t) ==
    /\ client.tasks[t].pc = "select"
    /\ client.tasks[t].cancelled
    /\ client' = [client EXCEPT !.tasks[t].pc = "exited"]
    /\ UNCHANGED <<rl, windowSize, mu, requestCounts, counters, call, cleaner, clock,
                   hist, ncalls, nticks, phase, env, given, ref, tb, later>>

RefreshNext ==
    \/ \E interval \in RefreshIntervals : StartPeriodicRefresh(interval)
    \/ StopPeriodicRefresh
    \/ \E t \in DOMAIN client.tasks : RefreshFires(t)
    \/ \E t \in DOMAIN client.tasks : RefreshReturns(t)
    \/ \E t \in DOMAIN client.tasks : RefreshExits(t)

SpecRefresh == BootInit /\ [][RefreshNext]_vars

(* The refresh goroutines are scheduled: a RefreshClient that was called
   returns, and a select that finds ctx.Done() ready again and again takes
   that case at some time (Go's select chooses among the ready cases at
   random). *)
RefreshFairness ==
    \A t \in 1..MaxRefreshOps :
        /\ WF_vars(t \in DOMAIN client.tasks /\ RefreshReturns(t))
        /\ SF_vars(t \in DOMAIN client.tasks /\ RefreshExits(t))

SpecRefreshFair == SpecRefresh /\ RefreshFairness

----------------------------------------------------------------------------
(* Properties.  What the limiter was configured with is read from the options
   it was given, not from the limiter. *)

Last(S) == CHOOSE i \in S : \A j \in S : j <= i

(* the quota the given options configure for a tool *)
ConfiguredQuota(tool) ==
    LET overrides == {i \in 1..Len(given) :
                         given[i].kind = "WithToolLimit" /\ given[i].tool = tool}
        defaults == {i \in 1..Len(given) : given[i].kind = "WithDefaultLimit"}
    IN  IF overrides # {} THEN given[Last(overrides)].n
        ELSE IF defaults # {} THEN given[Last(defaults)].n
        ELSE defaultLimit

(* a call has taken hold of its window and not yet let go of it *)
InCheck(g) == call[g].pc \in {"getLimit", "increment", "next"}

Decided(g) == call[g].outcome # "none"

(* count and windowStart of the window a store holds for a key *)
Window(store, ctrs, s, t) ==
    IF s \in DOMAIN store /\ t \in DOMAIN store[s]
    THEN [held |-> TRUE, count |-> ctrs[store[s][t]].count,
          windowStart |-> ctrs[store[s][t]].windowStart]
    ELSE [held |-> FALSE, count |-> 0, windowStart |-> 0]

(* the key of the call that goroutine g takes a step of *)
SessionOfStep(g) == IF call[g].pc = "idle" THEN call'[g].sessionID ELSE call[g].sessionID
ToolOfStep(g) == IF call[g].pc = "idle" THEN call'[g].tool ELSE call[g].tool

(* C1 -- Window correctness: for a key with quota Q >= 1, counting from the
   moment the key's window is created or reset, a call is admitted exactly when
   it is one of the first Q calls of the window, every further call is denied,
   and every call so decided is made less than windowSize after that moment. *)
C1_WindowCorrectness ==
    \A g \in Goroutines :
        (Decided(g) /\ getLimit(rl, call[g].tool) >= 1) =>
            /\ call[g].outcome = "admit" <=> call[g].nth <= getLimit(rl, call[g].tool)
            /\ call[g].outcome = "deny" <=> call[g].nth > getLimit(rl, call[g].tool)
            /\ call[g].now - counters[call[g].counter].windowStart < windowSize

(* a third call denied in a window of quota 2 that two calls have used up *)
C1_Witness ==
    \E g \in Goroutines :
        /\ call[g].pc = "return"
        /\ call[g].outcome = "deny"
        /\ getLimit(rl, call[g].tool) = 2
        /\ call[g].nth = 3
        /\ call[g].age < windowSize

(* C2 -- Deadlock freedom between the request path and the cleanup pass: no
   state is reachable in which a check that holds a window's lock waits for
   the store lock while the cleanup pass, holding the store lock, waits for
   that window's lock. *)
C2_NoLockCycle ==
    ~ \E g \in Goroutines :
        /\ call[g].pc = "getLimit"
        /\ counters[call[g].counter].mu = g
        /\ mu = CleanupGoroutine
        /\ cleaner.pc = "lockCounter"
        /\ requestCounts[cleaner.sessionID][cleaner.tool] = call[g].counter

(* C3 -- Per-key linearizability: while no cleanup pass runs, concurrent checks
   for one key all work on the one window the store holds for the key, at most
   one of them is between taking the window and letting go of it, and the
   calls admitted since the window's last reset never exceed the quota. *)
C3_PerKeyLinearizable ==
    /\ \A a \in DOMAIN counters : Lookup(a[1], a[2]) = a
    /\ \A g \in Goroutines :
           call[g].counter # NoCounter =>
               call[g].counter = Lookup(call[g].sessionID, call[g].tool)
    /\ \A g1, g2 \in Goroutines :
           (InCheck(g1) /\ InCheck(g2) /\ call[g1].counter = call[g2].counter) => g1 = g2
    /\ \A g \in Goroutines : InCheck(g) => counters[call[g].counter].mu = g
    /\ \A a \in DOMAIN counters :
           /\ hist[a].admitted = counters[a].count
           /\ ConfiguredQuota(a[2]) >= 1 => hist[a].admitted <= ConfiguredQuota(a[2])

(* two overlapping calls for one key of quota 1: one admitted, the other denied *)
C3_Witness ==
    \E g1, g2 \in Goroutines :
        /\ call[g1].pc = "return" /\ call[g1].outcome = "admit"
        /\ call[g2].pc = "return" /\ call[g2].outcome = "deny"
        /\ call[g1].counter = call[g2].counter
        /\ ConfiguredQuota(call[g1].tool) = 1
        /\ call[g2].nth = 2

(* C4 -- Cleanup is atomic with respect to admission: a check never updates a
   window that the cleanup pass has removed from the store; the window a check
   holds and counts its call in is the window the store holds for its key. *)
C4_ChecksTheStoredWindow ==
    \A g \in Goroutines :
        InCheck(g) => Lookup(call[g].sessionID, call[g].tool) = call[g].counter

(* C5 -- Window reset: for a key with quota Q >= 1, a call that reads the clock
   windowSize or more after windowStart is admitted, whatever the count of the
   window was, and after it the window has count 1 and windowStart now. *)
C5_WindowReset ==
    \A g \in Goroutines :
        (getLimit(rl, call[g].tool) >= 1 /\ call[g].age >= windowSize) =>
            /\ call[g].outcome # "deny"
            /\ call[g].pc = "return" => call[g].outcome = "admit"
            /\ call[g].pc \in {"next", "return"} =>
                   /\ counters[call[g].counter].count = 1
                   /\ counters[call[g].counter].windowStart = call[g].now

(* a call admitted after the window it found used up had run out *)
C5_Witness ==
    \E g \in Goroutines :
        /\ call[g].pc = "return"
        /\ call[g].outcome = "admit"
        /\ call[g].age >= windowSize
        /\ getLimit(rl, call[g].tool) >= 1
        /\ call[g].was = getLimit(rl, call[g].tool)
        /\ counters[call[g].counter].count = 1

(* a step of a check leaves the windows of every other session as they were *)
SessionFrame ==
    \A g \in Goroutines :
        call'[g] # call[g] =>
            \A s \in DOMAIN requestCounts \cup DOMAIN requestCounts', t \in Tools :
                s # SessionOfStep(g) =>
                    Window(requestCounts', counters', s, t) =
                        Window(requestCounts, counters, s, t)

(* a call works on a window made for its own session, and is denied only when
   that window has admitted as many calls as the quota *)
OwnSessionOnly ==
    \A g \in Goroutines :
        /\ call[g].counter # NoCounter => call[g].counter[1] = call[g].sessionID
        /\ (call[g].outcome = "deny" /\ ConfiguredQuota(call[g].tool) >= 1) =>
               call[g].seen >= ConfiguredQuota(call[g].tool)

(* C6 -- Session isolation: for sessions s1 # s2 and every tool t, a check for
   (s1, t) leaves count and windowStart of (s2, t) unchanged, and a call is
   denied only on the admissions of its own session. *)
C6_SessionIsolation == [][SessionFrame /\ OwnSessionOnly']_vars

(* session-1 has used up its quota for a tool and a call of session-2 for
   that tool is admitted *)
C6_Witness ==
    \E g \in Goroutines, t \in Tools :
        /\ call[g].pc = "return"
        /\ call[g].sessionID = "session-2"
        /\ call[g].tool = t
        /\ call[g].outcome = "admit"
        /\ Window(requestCounts, counters, "session-1", t).held
        /\ ConfiguredQuota(t) >= 1
        /\ Window(requestCounts, counters, "session-1", t).count = ConfiguredQuota(t)

(* a step of a check leaves the windows of the session's other tools as they were *)
ToolFrame ==
    \A g \in Goroutines :
        call'[g] # call[g] =>
            \A t \in Tools :
                t # ToolOfStep(g) =>
                    Window(requestCounts', counters', SessionOfStep(g), t) =
                        Window(requestCounts, counters, SessionOfStep(g), t)

(* a call works on a window made for its own tool and is decided by that
   tool's quota *)
OwnQuota ==
    /\ \A g \in Goroutines :
           /\ call[g].counter # NoCounter => call[g].counter[2] = call[g].tool
           /\ (Decided(g) /\ ConfiguredQuota(call[g].tool) >= 1) =>
                  (call[g].outcome = "admit" <=>
                       call[g].seen < ConfiguredQuota(call[g].tool))
    /\ \A a \in DOMAIN counters :
           ConfiguredQuota(a[2]) >= 1 => counters[a].count <= ConfiguredQuota(a[2])

(* C7 -- Tool isolation: for a session s and tools t1 # t2, a check for
   (s, t1) leaves the window of (s, t2) unchanged, and each tool is limited by
   its own quota. *)
C7_ToolIsolation == [][ToolFrame /\ OwnQuota']_vars

(* in one session the tool with override 3 has admitted 3 calls and the tool
   on the default quota 1 has admitted 1 *)
C7_Witness ==
    /\ ConfiguredQuota("high-limit-tool") = 3
    /\ ConfiguredQuota("default-tool") = 1
    /\ Window(requestCounts, counters, "session-1", "high-limit-tool").count = 3
    /\ Window(requestCounts, counters, "session-1", "default-tool").count = 1

LookupTools ==
    Tools \cup {"test-tool", "unknown-tool", "list_resources", "apply_resource"}

(* C8 -- Quota lookup: for every tool the quota applied is the tool's override
   if one was configured and the default quota otherwise, and for every limiter
   that can be constructed it is a positive integer. *)
C8_QuotaLookup ==
    phase = "running" =>
        \A tool \in LookupTools :
            /\ getLimit(rl, tool) = ConfiguredQuota(tool)
            /\ getLimit(rl, tool) > 0

(* the limiter was built from the environment *)
BuiltFromEnv == given = ConfigOptions(NewDefaultConfig(env))

(* an environment variable is set to an integer that is not positive *)
NonPositiveEnv ==
    \E key \in DOMAIN env : ~Atoi(env[key]).err /\ Atoi(env[key]).val <= 0

(* C9 -- Configuration validation: no limiter is constructed from a default
   quota <= 0 or a per-tool override <= 0, and none from an environment
   variable set to a non-positive value, which would have to be replaced. *)
C9_ConfigValidation ==
    phase = "running" =>
        /\ \A i \in 1..Len(given) :
               given[i].kind \in {"WithDefaultLimit", "WithToolLimit"} => given[i].n > 0
        /\ BuiltFromEnv => ~NonPositiveEnv

(* C10 -- Middleware adapter: the downstream handler is invoked exactly once
   if the call is admitted and its (result, error) pair is returned unchanged;
   if the call is denied the handler is not invoked and the adapter returns an
   error-flagged result naming the tool together with a nil error. *)
C10_MiddlewareAdapter ==
    \A g \in Goroutines :
        /\ call[g].invoked <= 1
        /\ call[g].outcome = "admit" => call[g].invoked = 1
        /\ call[g].outcome # "admit" => call[g].invoked = 0
        /\ call[g].pc = "return" =>
               /\ Decided(g)
               /\ call[g].outcome = "admit" => call[g].ret = call[g].got
               /\ call[g].outcome = "deny" =>
                      /\ ~call[g].ret.result.nil
                      /\ call[g].ret.result.isError
                      /\ Len(call[g].ret.result.text) >= 2
                      /\ call[g].ret.result.text[2] = call[g].tool
                      /\ call[g].ret.err = "nil"

(* one call returns the error of the handler it was admitted to while another
   returns a rejection *)
C10_Witness ==
    \E g1, g2 \in Goroutines :
        /\ call[g1].pc = "return" /\ call[g1].outcome = "admit"
        /\ call[g1].ret.err = "handler failed"
        /\ call[g2].pc = "return" /\ call[g2].outcome = "deny"
        /\ call[g2].invoked = 0

(* the retry hint a rejection carries *)
RetryAfter(reply) == reply.result.text[4]

(* C11 -- Retry hint: on every denied call retryAfter is windowSize less the
   time from the window's start to the moment the call read the clock, a
   moment never before the window's start, and 0 < retryAfter <= windowSize,
   whichever way concurrent calls interleave. *)
C11_RetryHint ==
    \A g \in Goroutines :
        (call[g].pc = "return" /\ call[g].outcome = "deny") =>
            /\ call[g].age >= 0
            /\ RetryAfter(call[g].ret) =
                   windowSize - (IF call[g].age >= windowSize THEN 0 ELSE call[g].age)
            /\ 0 < RetryAfter(call[g].ret)
            /\ RetryAfter(call[g].ret) <= windowSize

(* a call denied part of the way through a window: the hint is what is left
   of the window *)
C11_Witness ==
    \E g \in Goroutines :
        /\ call[g].pc = "return"
        /\ call[g].outcome = "deny"
        /\ call[g].age > 0
        /\ RetryAfter(call[g].ret) = windowSize - call[g].age
        /\ RetryAfter(call[g].ret) < windowSize

(* the step that ends a cleanup pass *)
PassEnds == cleaner.pc = "sessions" /\ cleaner'.pc = "idle"

(* C12 -- Reclamation: after a cleanup pass at time now with idle threshold
   cleanupInterval, every window a call last came to longer ago than the
   threshold is absent from the store, and every window a call came to within
   the threshold of now is still present. *)
C12_Reclamation ==
    [][PassEnds =>
          \A a \in DOMAIN counters :
              Lookup(a[1], a[2]) = a <=>
                  cleaner.now - hist[a].lastSeen <= cleanupInterval]_vars

(* the store holds the window at address a *)
Stored(store, a) ==
    /\ a[1] \in DOMAIN store
    /\ a[2] \in DOMAIN store[a[1]]
    /\ store[a[1]][a[2]] = a

(* C13 -- No reclamation mid-use: whatever window size is configured, a
   cleanup pass never removes a window that is still open, that is one with
   now - windowStart < windowSize. *)
C13_NoReclamationMidUse ==
    [][\A a \in DOMAIN counters :
          (Stored(requestCounts, a) /\ ~Stored(requestCounts', a)) =>
              cleaner.now - counters[a].windowStart >= windowSize]_vars

(* a step that is a call of Stop on a limiter stopped before *)
SecondStop == cleaner.nstops >= 1 /\ cleaner'.nstops = cleaner.nstops + 1

(* C14 -- Stop guard: after a first Stop, a second Stop reports an error to
   its caller and leaves the limiter's state unchanged. *)
C14_StopGuard ==
    [][SecondStop =>
          /\ cleaner'.stopResult = "error"
          /\ cleaner'.stoppedAt = cleaner.stoppedAt
          /\ UNCHANGED <<rl, windowSize, mu, requestCounts, counters>>]_vars

(* C15 -- Reclaimer termination: after Stop is called, the goroutine started
   at construction eventually leaves its loop. *)
C15_ReclaimerExits ==
    (cleaner.stoppedAt # NotStopped) ~> (cleaner.pc = "exited")

(* the context carries no session: no custom key, or an empty one, and no
   ClientSession *)
NoSession(ctx) == (~ctx.key.has \/ ctx.key.id = "") /\ ~ctx.session.has

Calling(g) == call[g].pc # "idle"

(* C16 -- Session resolution: for every context and tool name the identity
   resolved is not empty; for a context that carries no session it is
   "tool:" + tool name, so sessionless calls for one tool have one identity
   and work on one window. *)
C16_SessionResolution ==
    \A g \in Goroutines :
        Calling(g) =>
            /\ call[g].sessionID # ""
            /\ NoSession(call[g].ctx) =>
                   /\ call[g].sessionID = "tool:" \o call[g].tool
                   /\ call[g].counter # NoCounter =>
                          call[g].counter =
                              Lookup("tool:" \o call[g].tool, call[g].tool)

(* C17 -- No fallback collision: the identity synthesized for a sessionless
   call never equals the identity resolved for a call that carries a real
   session, and the two never work on the same window. *)
C17_NoFallbackCollision ==
    \A g1, g2 \in Goroutines :
        (Calling(g1) /\ Calling(g2)
            /\ NoSession(call[g1].ctx) /\ ~NoSession(call[g2].ctx)) =>
            /\ call[g1].sessionID # call[g2].sessionID
            /\ call[g1].counter # NoCounter => call[g1].counter # call[g2].counter

(* C18 -- Fine-grained locking: a check takes the store's lock exclusively
   only to create a session map or a window; a check for a key whose window
   exists does not hold it exclusively. *)
C18_FineGrainedLocking ==
    \A g \in Goroutines :
        mu = g => Lookup(call[g].sessionID, call[g].tool) = NoCounter

(* C19 -- No lock held across the downstream call: the window's lock is
   released before the downstream handler runs, so no call is in the handler
   while it holds its window's lock. *)
C19_NoLockAcrossNext ==
    \A g \in Goroutines :
        call[g].pc = "next" => counters[call[g].counter].mu # g

(* a step that is a call of StartPeriodicRefresh or StopPeriodicRefresh *)
RefreshCall == client'.nops = client.nops + 1

(* IsRefreshing is true exactly when the last call that returned nil was a
   Start, and GetRefreshInterval is 0 when not refreshing *)
RefreshGuard ==
    /\ IsRefreshing(client) <=> client.lastOk = "start"
    /\ ~IsRefreshing(client) => GetRefreshInterval(client) = 0
    /\ IsRefreshing(client) => GetRefreshInterval(client) \in RefreshIntervals

(* a Start while refreshing and a Stop while not refreshing return an error,
   every other call returns nil, and a call that returns an error leaves the
   flag, the interval and the running refresh goroutines as they were *)
RefreshCallGuarded ==
    RefreshCall =>
        /\ client'.err # "nil" <=>
               \/ client'.op = "start" /\ IsRefreshing(client)
               \/ client'.op = "stop" /\ ~IsRefreshing(client)
        /\ client'.err # "nil" =>
               /\ IsRefreshing(client') = IsRefreshing(client)
               /\ GetRefreshInterval(client') = GetRefreshInterval(client)
               /\ client'.refreshInterval = client.refreshInterval
               /\ client'.tasks = client.tasks
               /\ RunningTasks(client') = RunningTasks(client)
        /\ (client'.err = "nil" /\ client'.op = "start") =>
               /\ IsRefreshing(client')
               /\ Cardinality(RunningTasks(client')) =
                      Cardinality(RunningTasks(client)) + 1
        /\ (client'.err = "nil" /\ client'.op = "stop") => ~IsRefreshing(client')

(* C20 -- Kubernetes client refresh guard: IsRefreshing is true exactly
   between a successful StartPeriodicRefresh and the next successful
   StopPeriodicRefresh; a Start while refreshing and a Stop while not
   refreshing return an error and leave the flag, the interval and the running
   refresh tasks unchanged; GetRefreshInterval is 0 whenever not refreshing. *)
C20_RefreshGuard == RefreshGuard /\ [][RefreshCallGuarded /\ RefreshGuard']_vars

(* a Stop refused after a Start and a Stop that succeeded: the interval of
   the Start is still in the field and GetRefreshInterval returns 0 *)
C20_Witness ==
    /\ client.op = "stop"
    /\ client.err # "nil"
    /\ client.lastOk = "stop"
    /\ client.refreshInterval # 0
    /\ GetRefreshInterval(client) = 0
    /\ ~IsRefreshing(client)

(* the key of the counter at address a has never been reclaimed: a is the
   first counter made for the key and the store holds it *)
NeverReclaimed(a) == a[3] = 1 /\ Stored(requestCounts, a)

(* the calls the counter at address a admitted in the interval [t, t + windowSize) *)
AdmittedIn(a, t) ==
    Cardinality({i \in DOMAIN hist[a].admits :
                    t <= hist[a].admits[i] /\ hist[a].admits[i] < t + windowSize})

(* C21 -- Boundary-burst bound: for every key with quota Q >= 1 that has not
   been reclaimed, the calls admitted in any half-open interval of length
   windowSize are at most 2*Q, whatever the times of the calls. *)
C21_BoundaryBurst ==
    \A a \in DOMAIN counters :
        (NeverReclaimed(a) /\ ConfiguredQuota(a[2]) >= 1) =>
            \A t \in 0..clock : AdmittedIn(a, t) <= 2 * ConfiguredQuota(a[2])

(* a key of quota 2 has admitted 4 calls within one window's length: 2 at the
   end of one window and 2 at the start of the next *)
C21_Witness ==
    \E a \in DOMAIN counters, t \in 0..clock :
        /\ NeverReclaimed(a)
        /\ ConfiguredQuota(a[2]) = 2
        /\ AdmittedIn(a, t) = 4
        /\ counters[a].windowStart > 0

(* every window in the store has a count from 0 to the quota of its tool *)
CountBounded ==
    \A a \in DOMAIN counters :
        (Stored(requestCounts, a) /\ ConfiguredQuota(a[2]) >= 1) =>
            /\ 0 <= counters[a].count
            /\ counters[a].count <= ConfiguredQuota(a[2])

(* the step in which goroutine g admits its call *)
Admits(g) == call[g].pc = "increment" /\ call'[g].pc = "next"

(* the admission of a call is counted in the window the store holds for the
   call's key *)
AdmissionCounted ==
    \A g \in Goroutines :
        Admits(g) =>
            LET a == Lookup(call[g].sessionID, call[g].tool)
            IN  a # NoCounter => counters'[a].count = counters[a].count + 1

(* a window comes into the store with count 0, and the count of a window in
   the store changes only by 1 for a call admitted for its key, or to 0
   together with its windowStart *)
CountSteps ==
    /\ \A a \in DOMAIN counters' \ DOMAIN counters : counters'[a].count = 0
    /\ \A a \in DOMAIN counters :
           (Stored(requestCounts, a) /\ counters'[a].count # counters[a].count) =>
               \/ /\ counters'[a].count = counters[a].count + 1
                  /\ counters'[a].windowStart = counters[a].windowStart
                  /\ \E g \in Goroutines :
                         /\ Admits(g)
                         /\ call[g].sessionID = a[1]
                         /\ call[g].tool = a[2]
               \/ /\ counters'[a].count = 0
                  /\ counters'[a].windowStart > counters[a].windowStart

(* C22 -- Count invariant: in every reachable state every window in the store
   has, for a quota >= 1, 0 <= count <= quota of its tool, and its count is
   the number of calls admitted for its key since its windowStart: it is 0
   when the window starts and goes up by one with each such call. *)
C22_CountInvariant == [][CountBounded' /\ CountSteps /\ AdmissionCounted]_vars

(* the step in which goroutine g's call is denied *)
Denies(g) == call[g].outcome = "none" /\ call'[g].outcome = "deny"

(* C23 -- A denied call changes no admission state: for a quota >= 1, a
   denied call has not reset the window it took, has left its count and its
   windowStart as it found them, and its denial changes no window's count or
   windowStart and nothing in the store. *)
C23_DenialChangesNothing ==
    [][\A g \in Goroutines :
          (Denies(g) /\ ConfiguredQuota(call[g].tool) >= 1) =>
              /\ call[g].age < windowSize
              /\ counters[call[g].counter].count = call[g].was
              /\ counters[call[g].counter].windowStart = call[g].now - call[g].age
              /\ requestCounts' = requestCounts
              /\ DOMAIN counters' = DOMAIN counters
              /\ \A a \in DOMAIN counters :
                     /\ counters'[a].count = counters[a].count
                     /\ counters'[a].windowStart = counters[a].windowStart]_vars

(* a second denial in one window, later than the first: the window's start
   and count are where the admitted call left them *)
C23_Witness ==
    \E g \in Goroutines :
        /\ call[g].pc = "return"
        /\ call[g].outcome = "deny"
        /\ ConfiguredQuota(call[g].tool) = 1
        /\ call[g].nth = 3
        /\ call[g].age > 0
        /\ counters[call[g].counter].windowStart = call[g].now - call[g].age
        /\ counters[call[g].counter].count = 1

(* C24 -- Reclamation is advisory: with the default window size and the
   default cleanup threshold, every call of a sequence of calls is decided as
   the limiter on which no cleanup pass runs decides it. *)
C24_ReclamationAdvisory ==
    \A g \in Goroutines :
        (windowSize = defaultWindowSize /\ Decided(g)) =>
            call[g].outcome = call[g].refOutcome

(* C25 -- No empty session maps: a session of the store maps to no window
   only while the cleanup pass holds the store's lock, is at that session and
   has visited all its windows, its next step being the removal of the
   session's map; so no session map is empty while the lock is free, and none
   is created without a window. *)
C25_NoEmptySessionMaps ==
    \A s \in DOMAIN requestCounts :
        DOMAIN requestCounts[s] = {} =>
            /\ mu = CleanupGoroutine
            /\ cleaner.pc = "tools"
            /\ cleaner.sessionID = s
            /\ cleaner.tools = {}

(* a cleanup pass has ended, the store's lock is free, and a session whose
   only window the pass removed is gone from the store *)
C25_Witness ==
    /\ mu = NoOne
    /\ cleaner.pc = "idle"
    /\ cleaner.passes >= 1
    /\ \E a \in DOMAIN counters : a[1] \notin DOMAIN requestCounts

(* the original context carries a ClientSession with a non-empty ID *)
HasSession(ctx) == ctx.session.has /\ ctx.session.id # ""

(* C26 -- Session identity survives context replacement: behind the timeout
   middleware the limiter resolves, for a call whose original context carries
   a client session with a non-empty ID x, the identity x, and for a call
   whose original context has no session or one with an empty ID,
   "tool:" + tool name. *)
C26_IdentitySurvives ==
    \A g \in Goroutines :
        Calling(g) =>
            /\ HasSession(call[g].orig) => call[g].sessionID = call[g].orig.session.id
            /\ ~HasSession(call[g].orig) =>
                   call[g].sessionID = "tool:" \o call[g].tool

(* one call whose original context carried the client session mock-session
   and another value under the limiter's own key, counted under mock-session,
   and one whose session had an empty ID, counted under "tool:" + tool name *)
C26_Witness ==
    \E g1, g2 \in Goroutines :
        /\ call[g1].pc = "return"
        /\ call[g1].orig.session = Value("mock-session")
        /\ call[g1].orig.key = Value("session-1")
        /\ call[g1].counter[1] = "mock-session"
        /\ call[g2].pc = "return"
        /\ call[g2].orig.session = Value("")
        /\ call[g2].counter[1] = "tool:" \o call[g2].tool

(* C27 -- Token-bucket variant, bucket creation: getBucket for a never-seen
   (session, tool) pair terminates and returns a new bucket with tokens equal
   to the tool's limit: it never waits for rl.mu while its own goroutine holds
   rl.mu, and once it has looked the pair up it has returned or will be given
   the lock it waits for. *)
C27_GetBucketTerminates ==
    \A g \in Goroutines :
        tb.call[g].pc = "RLock" => tb.mu # g

(* the tokens the bucket under study had earned when its last call came *)
Earned == tokensToAdd(tb.probe.idle, getLimit(rl, tb.probe.tool))

(* C28 -- Token-bucket variant, refill: on each call the bucket gains tokens
   in proportion to the time since its previous access (limit per 60 s), up
   to the limit, so a bucket drained to 0 tokens admits a call again once it
   has earned a token; tokens stay within 0..limit. *)
C28_Refill ==
    tb.probe.outcome # "none" =>
        LET limit == getLimit(rl, tb.probe.tool)
            had == Min(tb.probe.was + Earned, limit)
        IN  /\ 0 <= tb.probe.bucket.tokens
            /\ tb.probe.bucket.tokens <= limit
            /\ tb.probe.outcome = "admit" <=> had >= 1
            /\ tb.probe.bucket.tokens = IF had >= 1 THEN had - 1 ELSE had

(* the window a limiter is constructed with: that of its last WithTimeWindow
   option, 60 s when it has none *)
WindowOf(opts) ==
    LET windows == {i \in 1..Len(opts) : opts[i].kind = "WithTimeWindow"}
    IN  IF windows = {} THEN defaultWindowSize ELSE opts[Last(windows)].n

(* C29 -- Window size is per limiter: the window a limiter applies is the one
   it was constructed with (60 s without WithTimeWindow); constructing another
   limiter with WithTimeWindow(W2) changes neither the window applied by a
   limiter constructed before nor that of one constructed later without the
   option.  Every limiter applies the package-level windowSize (line 185). *)
C29_WindowPerLimiter ==
    /\ windowSize = WindowOf(given)
    /\ \A i \in 1..Len(later) : windowSize = WindowOf(later[i])

(* the refresh goroutine t starts a RefreshClient in this step *)
StartsRefreshClient(t) ==
    /\ t \in DOMAIN client.tasks
    /\ client.tasks[t].pc = "select"
    /\ client'.tasks[t].pc = "refresh"

(* C30 -- Kubernetes client refresh stop: once StopPeriodicRefresh has
   returned successfully (the context of the refresh goroutine is cancelled),
   that goroutine starts no further RefreshClient, and it terminates at some
   time, under every scheduling. *)
C30_StopEndsRefresh ==
    /\ [][\A t \in DOMAIN client.tasks :
             client.tasks[t].cancelled => ~StartsRefreshClient(t)]_vars
    /\ \A t \in 1..MaxRefreshOps :
          (t \in DOMAIN client.tasks /\ client.tasks[t].cancelled)
              ~> (t \in DOMAIN client.tasks /\ client.tasks[t].pc = "exited")

====
